---------------------------- MODULE Spec2Model ----------------------------
(***************************************************************************)
(* Two single-threaded TCP servers built around a readiness loop:          *)
(*   src/server.cpp              poll() over a fixed table of pollfd slots *)
(*   src/server/http_server.cpp  epoll with edge-triggered client sockets  *)
(* One behaviour of the model is one run of one of the two programs        *)
(* (variable strategy), together with the kernel objects the program       *)
(* works on (descriptor table, accept backlog, receive buffers, epoll      *)
(* interest and ready lists) and the remote peers.                         *)
(***************************************************************************)
EXTENDS Integers, Sequences, FiniteSets, TLC

(* ------------------------------ bounds -------------------------------- *)
\* number of client connections a run may see
NConn == 3
\* src/server.cpp:19 has MAX_CLIENTS 10; the table is scaled down
MAX_CLIENTS == 2
\* src/server/http_server.cpp:13 has MAX_EVENTS 10; the batch is scaled down
MAX_EVENTS == 2
\* highest descriptor number the process may hold (RLIMIT_NOFILE, scaled)
MaxFd == 6
\* bytes a peer may have queued, unread, in a receive buffer; smaller than
\* both read buffers (1023 and 4096 bytes), so one read drains the queue
MaxPending == 1
\* environment faults of a run: spurious readiness, a failing accept,
\* a failing fcntl, a failing epoll_wait
MaxFaults == 2

(* -------------------------- program constants ------------------------- *)
\* descriptors 0, 1, 2 are stdin, stdout, stderr: socket() returns 3
FirstFd == 3

Conns == 1 .. NConn
FdNums == FirstFd .. MaxFd
Slots == 0 .. MAX_CLIENTS

\* what a descriptor number refers to in the kernel's table
FREE == 0
LISTENER == -1
EPOLL == -2

\* the bytes of the reply, as the adjacent string literals of the source
Response ==
  << "HTTP/1.1 200 OK\r\n",
     "Content-Type: text/plain\r\n",
     "Content-Length: 13\r\n",
     "Connection: close\r\n",
     "\r\n",
     "Hello, world!" >>

VARIABLES
  strategy,   \* "poll" (src/server.cpp) or "epoll" (src/server/http_server.cpp)
  pc,         \* position of main: setup, wait, accept, scan, handle, del, exit
  exitCode,   \* -1 while running, else the value main returned
  server_fd,  \* server_fd / listen_fd: the listening descriptor (0: none)
  epoll_fd,   \* the epoll instance's descriptor (0: none)
  fdtab,      \* kernel: descriptor number -> FREE, LISTENER, EPOLL or a connection
  nonblock,   \* kernel: descriptors with O_NONBLOCK set
  backlog,    \* kernel: completed connections waiting for accept
  phase,      \* connection: new, backlog, open (accepted), closed (by the server)
  rcv,        \* connection: bytes queued for the server to read
  peer,       \* connection: what the remote end did last: open, fin, rst
  sent,       \* connection: the peer has sent at least one byte
  out,        \* connection: the writes the server made on it
  lastRead,   \* connection: outcome of the server's last read on it
  slotOf,     \* connection: slot of fds it was placed in (0: none yet)
  fds,        \* poll server: the pollfd array
  idx,        \* loop variable i of the scan / batch loop
  interest,   \* epoll: descriptors registered with the instance
  rdy,        \* epoll: edge-triggered descriptors with an undelivered event
  events,     \* epoll: the batch epoll_wait returned
  client_fd,  \* epoll server: local client_fd of the iteration
  pending,    \* connections the last wait reported and not yet read
  faults,     \* environment faults so far
  waitFailed, \* a wait call has returned an error
  badClose,   \* close() calls that hit a descriptor that was not open
  delFailed,  \* an epoll_ctl(EPOLL_CTL_DEL) named a descriptor not registered
  overCap,    \* more connections were established at once than the capacity
  lastAccept  \* accept since the last wait: 0 not called, -1 failed, else
              \* the connection it returned

kernelVars == << fdtab, nonblock, backlog, interest, rdy >>
connVars == << phase, rcv, peer, sent, out, lastRead, slotOf >>
progVars == << strategy, pc, exitCode, server_fd, epoll_fd, fds, idx, events,
               client_fd >>
ghostVars == << pending, faults, waitFailed, badClose, delFailed, overCap,
               lastAccept >>
vars == << kernelVars, connVars, progVars, ghostVars >>

(* ------------------------------ helpers ------------------------------- *)
Min(S) == CHOOSE x \in S : \A y \in S : x <= y

FreeFds(tab) == { f \in FdNums : tab[f] = FREE }

\* the kernel hands out the lowest free descriptor number
LowestFree(tab) == Min(FreeFds(tab))

\* an indeterminate (never written) pollfd field
INDET == {"INDET"}
POLLIN == "POLLIN"

\* `field & POLLIN`; an indeterminate field may give either answer b
HasPollin(field, b) == IF field = INDET THEN b ELSE POLLIN \in field

\* a read on connection c would not have to wait
Readable(c) == rcv[c] > 0 \/ peer[c] # "open"

\* connections that are established and not yet closed by the server
Established == { c \in Conns : phase[c] \in {"backlog", "open"} }

\* how many connections the program can hold at once
Capacity ==
  IF strategy = "poll" THEN MAX_CLIENTS ELSE Cardinality(FdNums) - 2


\* the descriptor that refers to connection c, if the server holds one
FdOf(c) == { f \in FdNums : fdtab[f] = c }

(* ------------------------- kernel primitives -------------------------- *)
\* close(fd): an open descriptor is released, and the kernel drops it from
\* every epoll instance (its only reference is gone); a number that is not
\* open fails with EBADF
KClose(fd) ==
  IF fd \in FdNums /\ fdtab[fd] # FREE
  THEN /\ fdtab' = [fdtab EXCEPT ![fd] = FREE]
       /\ nonblock' = nonblock \ {fd}
       /\ interest' = interest \ {fd}
       /\ rdy' = rdy \ {fd}
       /\ phase' = IF fdtab[fd] > 0
                   THEN [phase EXCEPT ![fdtab[fd]] = "closed"]
                   ELSE phase
       /\ badClose' = badClose
  ELSE /\ badClose' = TRUE
       /\ UNCHANGED << fdtab, nonblock, interest, rdy, phase >>

\* the result of read(fd, ...): "data" (count > 0), "eof" (0), "err" (-1, a
\* real error), "again" (-1 with EAGAIN on a non-blocking descriptor) or
\* "block" (a blocking descriptor with nothing to deliver: the call waits)
ReadOutcome(fd) ==
  IF fd \notin FdNums \/ fdtab[fd] <= 0 THEN "err"
  ELSE LET c == fdtab[fd] IN
       IF rcv[c] > 0 THEN "data"
       ELSE IF peer[c] = "rst" THEN "err"
       ELSE IF peer[c] = "fin" THEN "eof"
       ELSE IF fd \in nonblock THEN "again"
       ELSE "block"

\* what a read leaves behind in the connection's state
AfterRead(fd, res) ==
  IF fd \in FdNums /\ fdtab[fd] > 0
  THEN /\ rcv' = [rcv EXCEPT ![fdtab[fd]] = 0]
       /\ lastRead' = [lastRead EXCEPT ![fdtab[fd]] = res]
       /\ pending' = pending \ {fdtab[fd]}
  ELSE UNCHANGED << rcv, lastRead, pending >>

\* the listening socket accepts connections
Listening ==
  /\ pc \notin {"setup", "exit"}
  /\ server_fd \in FdNums
  /\ fdtab[server_fd] = LISTENER

(* ------------------------------- peers -------------------------------- *)
\* an edge on a registered edge-triggered descriptor queues an event
Edge(c) == rdy' = rdy \cup (FdOf(c) \cap interest)

\* a peer completes the TCP handshake; connections are numbered in the
\* order they arrive
Connect(c) ==
  /\ Listening
  /\ phase[c] = "new"
  /\ IF c = 1 THEN TRUE ELSE phase[c - 1] # "new"
  /\ phase' = [phase EXCEPT ![c] = "backlog"]
  /\ backlog' = Append(backlog, c)
  /\ overCap' = (overCap \/ Cardinality(Established) + 1 > Capacity)
  /\ UNCHANGED << fdtab, nonblock, interest, rdy, rcv, peer, sent, out,
                  lastRead, slotOf, progVars, pending, faults, waitFailed,
                  badClose, delFailed, lastAccept >>

\* the peer sends a byte
Send(c) ==
  /\ pc # "exit"
  /\ phase[c] \in {"backlog", "open"}
  /\ peer[c] = "open"
  /\ rcv[c] < MaxPending
  /\ rcv' = [rcv EXCEPT ![c] = @ + 1]
  /\ sent' = [sent EXCEPT ![c] = TRUE]
  /\ Edge(c)
  /\ UNCHANGED << fdtab, nonblock, backlog, interest, phase, peer, out,
                  lastRead, slotOf, progVars, ghostVars >>

\* the peer closes its end (FIN)
PeerClose(c) ==
  /\ pc # "exit"
  /\ phase[c] \in {"backlog", "open"}
  /\ peer[c] = "open"
  /\ peer' = [peer EXCEPT ![c] = "fin"]
  /\ Edge(c)
  /\ UNCHANGED << fdtab, nonblock, backlog, interest, phase, rcv, sent, out,
                  lastRead, slotOf, progVars, ghostVars >>

\* the peer aborts the connection (RST): queued bytes are discarded
PeerReset(c) ==
  /\ pc # "exit"
  /\ phase[c] \in {"backlog", "open"}
  /\ peer[c] = "open"
  /\ peer' = [peer EXCEPT ![c] = "rst"]
  /\ rcv' = [rcv EXCEPT ![c] = 0]
  /\ Edge(c)
  /\ UNCHANGED << fdtab, nonblock, backlog, interest, phase, sent, out,
                  lastRead, slotOf, progVars, ghostVars >>

(* ------------------------------- Init --------------------------------- *)
Init ==
  /\ strategy \in {"poll", "epoll"}
  /\ pc = "setup"
  /\ exitCode = -1
  /\ server_fd = 0
  /\ epoll_fd = 0
  /\ fdtab = [f \in FdNums |-> FREE]
  /\ nonblock = {}
  /\ backlog = << >>
  /\ phase = [c \in Conns |-> "new"]
  /\ rcv = [c \in Conns |-> 0]
  /\ peer = [c \in Conns |-> "open"]
  /\ sent = [c \in Conns |-> FALSE]
  /\ out = [c \in Conns |-> << >>]
  /\ lastRead = [c \in Conns |-> "none"]
  /\ slotOf = [c \in Conns |-> 0]
  /\ fds = [k \in Slots |-> [fd |-> -1, events |-> INDET, revents |-> INDET]]
  /\ idx = 0
  /\ interest = {}
  /\ rdy = {}
  /\ events = << >>
  /\ client_fd = 0
  /\ pending = {}
  /\ faults = 0
  /\ waitFailed = FALSE
  /\ badClose = FALSE
  /\ delFailed = FALSE
  /\ overCap = FALSE
  /\ lastAccept = 0

(* ------------------------ poll server: setup ------------------------- *)
\* socket, bind, listen; any failure returns 1. Then the pollfd array:
\* entry 0 watches the listening socket, entries 1..MAX_CLIENTS are empty
\* (fd = -1) with events and revents never written.
PollSetup ==
  /\ strategy = "poll"
  /\ pc = "setup"
  /\ \E fail \in {"socket", "bind", "listen", "none"} :
       /\ IF fail = "socket"
          THEN UNCHANGED << server_fd, fdtab >>
          ELSE /\ server_fd' = LowestFree(fdtab)
               /\ fdtab' = [fdtab EXCEPT ![LowestFree(fdtab)] = LISTENER]
       /\ IF fail = "none"
          THEN /\ pc' = "wait"
               /\ exitCode' = exitCode
               /\ fds' = [k \in Slots |->
                            IF k = 0
                            THEN [fd |-> LowestFree(fdtab), events |-> {POLLIN},
                                  revents |-> {}]
                            ELSE [fd |-> -1, events |-> INDET, revents |-> INDET]]
          ELSE /\ pc' = "exit"
               /\ exitCode' = 1
               /\ fds' = fds
  /\ UNCHANGED << strategy, epoll_fd, idx, events, client_fd, nonblock,
                  backlog, interest, rdy, connVars, ghostVars >>

(* ------------------------- poll server: loop -------------------------- *)
\* the kernel's answer for one pollfd entry: a negative fd is skipped with
\* revents 0, a number that is not open gives POLLNVAL, a connection gives
\* POLLIN when it is asked for and a read would not wait (or spuriously,
\* for the connections in sp)
PollRevents(e, sp, b) ==
  IF e.fd < 0 THEN {}
  ELSE IF e.fd \notin FdNums \/ fdtab[e.fd] = FREE THEN {"POLLNVAL"}
  ELSE IF fdtab[e.fd] = LISTENER
       THEN IF HasPollin(e.events, b) /\ backlog # << >> THEN {POLLIN} ELSE {}
  ELSE IF fdtab[e.fd] = EPOLL THEN {}
  ELSE LET c == fdtab[e.fd] IN
       (IF HasPollin(e.events, b) /\ (Readable(c) \/ c \in sp)
        THEN {POLLIN} ELSE {})
       \cup (IF peer[c] = "rst" THEN {"POLLERR", "POLLHUP"} ELSE {})

\* connections the program holds in its table whose read would wait
IdleWatched ==
  { c \in Conns : /\ phase[c] = "open"
                  /\ ~Readable(c)
                  /\ IF strategy = "poll"
                     THEN \E k \in 1 .. MAX_CLIENTS : fds[k].fd \in FdOf(c)
                     ELSE FdOf(c) \cap interest # {} }

\* the readiness the kernel may report without cause: none, or one idle
\* connection while the run's fault budget lasts
SpuriousSets ==
  {{}} \cup (IF faults < MaxFaults THEN { {c} : c \in IdleWatched } ELSE {})

\* int ready = poll(fds, MAX_CLIENTS + 1, -1) with ready >= 0: waits until
\* some entry has an event and writes every entry's revents
PollWait ==
  /\ strategy = "poll"
  /\ pc = "wait"
  /\ \E sp \in SpuriousSets, b \in BOOLEAN :
       LET rv == [k \in Slots |-> PollRevents(fds[k], sp, b)] IN
       /\ \E k \in Slots : rv[k] # {}
       /\ fds' = [k \in Slots |-> [fds[k] EXCEPT !.revents = rv[k]]]
       /\ pending' = { c \in Conns :
                         \E k \in 1 .. MAX_CLIENTS :
                           fds[k].fd \in FdOf(c) /\ POLLIN \in rv[k] }
       /\ faults' = faults + Cardinality(sp)
  /\ lastAccept' = 0
  /\ pc' = "accept"
  /\ UNCHANGED << strategy, exitCode, server_fd, epoll_fd, idx, events,
                  client_fd, kernelVars, connVars, waitFailed, badClose,
                  delFailed, overCap >>

\* PlaceClient that assigns POLLIN to revents instead of events
PlaceClient_SetsRevents(table, fd) ==
  LET empty == { k \in 1 .. MAX_CLIENTS : table[k].fd = -1 } IN
  IF empty = {} THEN table
  ELSE [table EXCEPT ![Min(empty)] = [@ EXCEPT !.fd = fd, !.revents = {POLLIN}]]

\* PlaceClient without the break: every empty slot takes the new descriptor
PlaceClient_NoBreak(table, fd) ==
  [k \in Slots |->
     IF k >= 1 /\ table[k].fd = -1
     THEN [table[k] EXCEPT !.fd = fd, !.events = {POLLIN}]
     ELSE table[k]]

\* PlaceClient with the loop bound off by one (i < MAX_CLIENTS): the last
\* slot is never used
PlaceClient_SkipsLast(table, fd) ==
  LET empty == { k \in 1 .. MAX_CLIENTS - 1 : table[k].fd = -1 } IN
  IF empty = {} THEN table
  ELSE [table EXCEPT ![Min(empty)] = [@ EXCEPT !.fd = fd, !.events = {POLLIN}]]

\* the for loop that looks for an empty slot: the first entry with fd = -1
\* takes the new descriptor; when there is none the table is left as it is
PlaceClient(table, fd) ==
  LET empty == { k \in 1 .. MAX_CLIENTS : table[k].fd = -1 } IN
  IF empty = {} THEN table
  ELSE [table EXCEPT ![Min(empty)] = [@ EXCEPT !.fd = fd, !.events = {POLLIN}]]

\* if (fds[0].revents & POLLIN): accept one connection and place it
PollAccept ==
  /\ strategy = "poll"
  /\ pc = "accept"
  /\ \E b \in BOOLEAN :
       IF ~HasPollin(fds[0].revents, b)
       THEN UNCHANGED << fdtab, backlog, phase, slotOf, fds, faults,
                         lastAccept >>
       ELSE \/ \* accept fails: no descriptor left, or a transient error
               /\ backlog # << >>
               /\ FreeFds(fdtab) = {} \/ faults < MaxFaults
               /\ faults' = IF FreeFds(fdtab) = {} THEN faults ELSE faults + 1
               /\ lastAccept' = -1
               /\ UNCHANGED << fdtab, backlog, phase, slotOf, fds >>
            \/ \* accept returns a new descriptor
               /\ backlog # << >>
               /\ FreeFds(fdtab) # {}
               /\ LET c == Head(backlog)
                      fd == LowestFree(fdtab)
                      table == PlaceClient(fds, fd)
                  IN /\ backlog' = Tail(backlog)
                     /\ fdtab' = [fdtab EXCEPT ![fd] = c]
                     /\ phase' = [phase EXCEPT ![c] = "open"]
                     /\ fds' = table
                     /\ slotOf' = [slotOf EXCEPT ![c] =
                          IF \E k \in 1 .. MAX_CLIENTS : table[k].fd # fds[k].fd
                          THEN CHOOSE k \in 1 .. MAX_CLIENTS : table[k].fd # fds[k].fd
                          ELSE 0]
                     /\ lastAccept' = c
               /\ faults' = faults
  /\ pc' = "scan"
  /\ idx' = 1
  /\ UNCHANGED << strategy, exitCode, server_fd, epoll_fd, events, client_fd,
                  nonblock, interest, rdy, rcv, peer, sent, out, lastRead,
                  pending, waitFailed, badClose, delFailed, overCap >>

\* ReleaseSlot with the index hard-wired: always empties the first slot
ReleaseSlot_First(table, i) == [table EXCEPT ![1] = [@ EXCEPT !.fd = -1]]

\* ReleaseSlot that closes the descriptor but forgets to empty the slot
ReleaseSlot_KeepsFd(table, i) == table

\* fds[i].fd = -1: mark the slot as available
ReleaseSlot(table, i) == [table EXCEPT ![i] = [@ EXCEPT !.fd = -1]]

\* fds[i].fd != -1 && (fds[i].revents & POLLIN)
SlotReady(e, b) == e.fd # -1 /\ HasPollin(e.revents, b)

\* one pass of the client loop body, for slot i = idx: a ready slot is read
\* once; data is only logged, anything else closes the descriptor and
\* empties the slot. A read that has to wait suspends the loop.
PollScan ==
  /\ strategy = "poll"
  /\ pc = "scan"
  /\ idx \in 1 .. MAX_CLIENTS
  /\ \E b \in BOOLEAN :
       IF ~SlotReady(fds[idx], b)
       THEN UNCHANGED << fds, fdtab, nonblock, interest, rdy, phase, badClose,
                         rcv, lastRead, pending >>
       ELSE LET res == ReadOutcome(fds[idx].fd) IN
            /\ res # "block"
            /\ AfterRead(fds[idx].fd, res)
            /\ IF res = "data"
               THEN UNCHANGED << fds, fdtab, nonblock, interest, rdy, phase,
                                 badClose >>
               ELSE /\ KClose(fds[idx].fd)
                    /\ fds' = ReleaseSlot(fds, idx)
  /\ idx' = IF idx = MAX_CLIENTS THEN 0 ELSE idx + 1
  /\ pc' = IF idx = MAX_CLIENTS THEN "wait" ELSE "scan"
  /\ UNCHANGED << strategy, exitCode, server_fd, epoll_fd, events, client_fd,
                  backlog, peer, sent, out, slotOf, faults, waitFailed,
                  delFailed, overCap, lastAccept >>

\* poll() itself fails (ready < 0): perror, break, close(server_fd), return 0
PollWaitFail ==
  /\ strategy = "poll"
  /\ pc = "wait"
  /\ waitFailed' = TRUE
  /\ pc' = "exit"
  /\ exitCode' = 0
  /\ KClose(server_fd)
  /\ UNCHANGED << strategy, server_fd, epoll_fd, fds, idx, events, client_fd,
                  backlog, rcv, peer, sent, out, lastRead, slotOf, pending,
                  faults, delFailed, overCap, lastAccept >>

(* ------------------------ epoll server: setup ------------------------ *)
\* make_socket_non_blocking(fd): F_GETFL then F_SETFL with O_NONBLOCK; when
\* either fcntl fails (ok = FALSE) the descriptor keeps its mode
make_socket_non_blocking(nb, fd, ok) == IF ok THEN nb \cup {fd} ELSE nb

\* the outcomes of one fcntl pair: success, or a failure while the run's
\* fault budget lasts
FcntlOutcomes == IF faults < MaxFaults THEN {TRUE, FALSE} ELSE {TRUE}

\* socket, bind, listen, make_socket_non_blocking (result not looked at),
\* epoll_create1, epoll_ctl(ADD, listen_fd, EPOLLIN); a failure of any call
\* but the fcntl returns 1
EpollSetup ==
  /\ strategy = "epoll"
  /\ pc = "setup"
  /\ \E fail \in {"socket", "bind", "listen", "epoll_create1", "epoll_ctl",
                  "none"},
        ok \in FcntlOutcomes :
       LET lfd == LowestFree(fdtab)
           tab1 == [fdtab EXCEPT ![lfd] = LISTENER]
           efd == LowestFree(tab1)
           reached == fail \in {"epoll_create1", "epoll_ctl", "none"}
       IN
       /\ ok \/ reached
       /\ IF fail = "socket"
          THEN UNCHANGED << server_fd, fdtab >>
          ELSE /\ server_fd' = lfd
               /\ fdtab' = IF fail \in {"epoll_ctl", "none"}
                           THEN [tab1 EXCEPT ![efd] = EPOLL]
                           ELSE tab1
       /\ nonblock' = IF reached
                      THEN make_socket_non_blocking(nonblock, lfd, ok)
                      ELSE nonblock
       /\ faults' = IF ok THEN faults ELSE faults + 1
       /\ epoll_fd' = IF fail \in {"epoll_ctl", "none"} THEN efd ELSE epoll_fd
       /\ interest' = IF fail = "none" THEN {lfd} ELSE interest
       /\ pc' = IF fail = "none" THEN "wait" ELSE "exit"
       /\ exitCode' = IF fail = "none" THEN exitCode ELSE 1
  /\ UNCHANGED << strategy, fds, idx, events, client_fd, backlog, rdy,
                  connVars, pending, waitFailed, badClose, delFailed, overCap,
                  lastAccept >>

(* ------------------------- epoll server: loop ------------------------- *)
\* what the instance has to report: the level-triggered listening socket
\* while its backlog is not empty, and every edge-triggered descriptor with
\* an undelivered event
EpollReady ==
  (IF server_fd \in interest /\ backlog # << >> THEN {server_fd} ELSE {})
  \cup rdy

\* the orders in which n of the descriptors in S can be returned
Batches(S, n) ==
  { q \in [1 .. n -> S] : \A i, j \in 1 .. n : q[i] = q[j] => i = j }

\* int n = epoll_wait(epoll_fd, events.data(), MAX_EVENTS, -1): waits until
\* something is ready and returns at most MAX_EVENTS descriptors
EpollWait ==
  /\ strategy = "epoll"
  /\ pc = "wait"
  /\ \E sp \in SpuriousSets :
       LET cand == EpollReady \cup UNION { FdOf(c) : c \in sp }
           n == IF Cardinality(cand) < MAX_EVENTS
                THEN Cardinality(cand) ELSE MAX_EVENTS
       IN /\ n > 0
          /\ \E q \in Batches(cand, n) :
               /\ events' = q
               /\ rdy' = rdy \ { q[i] : i \in 1 .. n }
               /\ pending' = { c \in Conns : \E i \in 1 .. n : q[i] \in FdOf(c) }
               /\ faults' = faults + Cardinality(sp \cap pending')
  /\ lastAccept' = 0
  /\ idx' = 1
  /\ pc' = "handle"
  /\ UNCHANGED << strategy, exitCode, server_fd, epoll_fd, fds, client_fd,
                  fdtab, nonblock, backlog, interest, connVars, waitFailed,
                  badClose, delFailed, overCap >>

\* epoll_wait fails (n = -1): the for loop runs zero times and the while
\* loop calls epoll_wait again
EpollWaitFail ==
  /\ strategy = "epoll"
  /\ pc = "wait"
  /\ faults < MaxFaults
  /\ faults' = faults + 1
  /\ waitFailed' = TRUE
  /\ UNCHANGED << kernelVars, connVars, progVars, pending, badClose,
                  delFailed, overCap, lastAccept >>

\* write(client_fd, response.c_str(), response.size())
KWrite(o, fd) ==
  IF fd \in FdNums /\ fdtab[fd] > 0
  THEN [o EXCEPT ![fdtab[fd]] = Append(@, Response)]
  ELSE o

\* Reply that answers whatever the read returned
Reply_Always(res, o, fd) == KWrite(o, fd)

\* if (count <= 0) nothing is written, else the response is
Reply(res, o, fd) == IF res = "data" THEN KWrite(o, fd) ELSE o

\* the next position of the batch loop after entry i
AdvanceBatch ==
  /\ idx' = idx + 1
  /\ pc' = IF idx + 1 > Len(events) THEN "wait" ELSE "handle"

\* OnAcceptError that leaves the batch loop (break) instead of going on
OnAcceptError_Break ==
  /\ idx' = idx + 1
  /\ pc' = "wait"

\* if (client_fd == -1) { perror("accept"); continue; }
OnAcceptError == AdvanceBatch

\* events[i].data.fd == listen_fd: accept one connection, make it
\* non-blocking, register it with EPOLLIN | EPOLLET; a failed accept goes on
\* with the next entry
EpollAccept ==
  /\ strategy = "epoll"
  /\ pc = "handle"
  /\ idx \in 1 .. Len(events)
  /\ events[idx] = server_fd
  /\ \/ \* accept returns -1: nothing pending on a non-blocking socket, no
        \* descriptor left, or a transient error
        /\ \/ backlog = << >> /\ server_fd \in nonblock
           \/ backlog # << >> /\ (FreeFds(fdtab) = {} \/ faults < MaxFaults)
        /\ faults' = IF backlog # << >> /\ FreeFds(fdtab) # {}
                     THEN faults + 1 ELSE faults
        /\ lastAccept' = -1
        /\ OnAcceptError
        /\ UNCHANGED << client_fd, fdtab, nonblock, backlog, interest, rdy,
                        phase >>
     \/ /\ backlog # << >>
        /\ FreeFds(fdtab) # {}
        /\ \E ok \in FcntlOutcomes :
             LET c == Head(backlog)
                 fd == LowestFree(fdtab)
             IN /\ client_fd' = fd
                /\ backlog' = Tail(backlog)
                /\ fdtab' = [fdtab EXCEPT ![fd] = c]
                /\ phase' = [phase EXCEPT ![c] = "open"]
                /\ nonblock' = make_socket_non_blocking(nonblock, fd, ok)
                /\ interest' = interest \cup {fd}
                /\ rdy' = IF Readable(c) THEN rdy \cup {fd} ELSE rdy
                /\ faults' = IF ok THEN faults ELSE faults + 1
                /\ lastAccept' = c
        /\ AdvanceBatch
  /\ UNCHANGED << strategy, exitCode, server_fd, epoll_fd, fds, events, rcv,
                  peer, sent, out, lastRead, slotOf, pending, waitFailed,
                  badClose, delFailed, overCap >>

\* EventFd that keeps the value client_fd had before (the variable hoisted
\* out of the loop and not assigned in the else branch)
EventFd_Stale(i) == client_fd

\* int client_fd = events[i].data.fd
EventFd(i) == events[i]

\* the else branch: one read on the ready client descriptor; count <= 0
\* closes it, count > 0 writes the response and closes it. The
\* epoll_ctl(EPOLL_CTL_DEL) that follows the close is the next step.
EpollClient ==
  /\ strategy = "epoll"
  /\ pc = "handle"
  /\ idx \in 1 .. Len(events)
  /\ events[idx] # server_fd
  /\ LET fd == EventFd(idx)
         res == ReadOutcome(fd)
     IN /\ res # "block"
        /\ client_fd' = fd
        /\ AfterRead(fd, res)
        /\ out' = Reply(res, out, fd)
        /\ KClose(fd)
  /\ pc' = "del"
  /\ UNCHANGED << strategy, exitCode, server_fd, epoll_fd, fds, idx, events,
                  backlog, peer, sent, slotOf, faults, waitFailed, delFailed,
                  overCap, lastAccept >>

\* epoll_ctl(epoll_fd, EPOLL_CTL_DEL, client_fd, nullptr)
EpollDel ==
  /\ strategy = "epoll"
  /\ pc = "del"
  /\ IF client_fd \in interest
     THEN /\ interest' = interest \ {client_fd}
          /\ rdy' = rdy \ {client_fd}
          /\ delFailed' = delFailed
     ELSE /\ delFailed' = TRUE
          /\ UNCHANGED << interest, rdy >>
  /\ AdvanceBatch
  /\ UNCHANGED << strategy, exitCode, server_fd, epoll_fd, fds, events,
                  client_fd, fdtab, nonblock, backlog, connVars, pending,
                  faults, waitFailed, badClose, overCap, lastAccept >>

(* --------------------------- specification ---------------------------- *)
\* the steps of the program that are not a failure of the wait call
LoopStep ==
  \/ PollSetup
  \/ PollWait
  \/ PollAccept
  \/ PollScan
  \/ EpollSetup
  \/ EpollWait
  \/ EpollAccept
  \/ EpollClient
  \/ EpollDel

Next ==
  \/ \E c \in Conns : Connect(c)
  \/ \E c \in Conns : Send(c)
  \/ \E c \in Conns : PeerClose(c)
  \/ \E c \in Conns : PeerReset(c)
  \/ PollWaitFail
  \/ EpollWaitFail
  \/ LoopStep

Spec == Init /\ [][Next]_vars

\* the loop is a single thread that runs whenever it is not waiting in a
\* system call: every enabled step of the program is eventually taken
FairSpec == Spec /\ WF_vars(LoopStep)

\* the epoll server on its own
EpollLoopStep ==
  \/ EpollSetup
  \/ EpollWait
  \/ EpollAccept
  \/ EpollClient
  \/ EpollDel

EpollInit == Init /\ strategy = "epoll"

EpollNext ==
  \/ \E c \in Conns : Connect(c)
  \/ \E c \in Conns : Send(c)
  \/ \E c \in Conns : PeerClose(c)
  \/ \E c \in Conns : PeerReset(c)
  \/ EpollWaitFail
  \/ EpollLoopStep

EpollFairSpec == EpollInit /\ [][EpollNext]_vars /\ WF_vars(EpollLoopStep)

(* ------------------------- derived notions ---------------------------- *)
Max(S) == CHOOSE x \in S : \A y \in S : y <= x

\* the connection slot k of the pollfd array holds (0: the slot is empty):
\* the last one the accept step placed there
HeldIn(k) ==
  IF fds[k].fd = -1 \/ { c \in Conns : slotOf[c] = k } = {}
  THEN 0
  ELSE Max({ c \in Conns : slotOf[c] = k })

\* connection c has neither a slot nor a registration with the notifier
Released(c) ==
  /\ \A k \in 1 .. MAX_CLIENTS : HeldIn(k) # c
  /\ FdOf(c) \cap interest = {}

\* descriptors of accepted connections the process holds open
OpenClientFds == { f \in FdNums : fdtab[f] > 0 }

\* descriptors the pollfd array watches in its client slots
SlotFds == { fds[k].fd : k \in 1 .. MAX_CLIENTS } \ {-1}

\* the server wrote the response on c, once, and closed the connection
Served(c) == out[c] = << Response >> /\ phase[c] = "closed"

\* what releases the run from serving c: more connections at once than the
\* capacity, an environment fault, a failed wait, or a reset by the peer
Excused(c) ==
  overCap \/ faults > 0 \/ waitFailed \/ exitCode # -1 \/ peer[c] = "rst"

(* ------------------------------ claims -------------------------------- *)
\* C1: under fair scheduling of the loop, with no more connections at once
\* than the capacity, every connection is eventually accepted, and every
\* connection that has sent bytes eventually has the response written on it
\* and is closed by the server.
C1_EventuallyServed ==
  \A c \in Conns :
    /\ (phase[c] = "backlog") ~> (phase[c] # "backlog" \/ Excused(c))
    /\ (phase[c] \in {"backlog", "open"} /\ sent[c])
         ~> (Served(c) \/ Excused(c))

\* C2: in the poll server every descriptor accept returned is either in a
\* slot of the table or closed; none is left open outside the table.
C2_NoHungDescriptor ==
  strategy = "poll" => OpenClientFds \subseteq SlotFds

\* C3: once a read on a connection has returned a positive count, the
\* response has been written on it, exactly once, and the connection is
\* closed with its slot or registration released.
C3_DataAnswered ==
  \A c \in Conns :
    lastRead[c] = "data" => Served(c) /\ Released(c)

\* C4: a connection whose peer never sent a byte never gets a byte written,
\* and once the server has read end-of-file on it, it is closed and its
\* slot or registration is released.
C4_SilentEof ==
  \A c \in Conns :
    /\ ~sent[c] => out[c] = << >>
    /\ lastRead[c] = "eof" => phase[c] = "closed" /\ Released(c)

\* C4 witness: a connection that never sent, was closed by its peer, and
\* has been read to end-of-file and closed by the server.
C4_Witness ==
  \E c \in Conns :
    /\ ~sent[c]
    /\ peer[c] = "fin"
    /\ lastRead[c] = "eof"
    /\ phase[c] = "closed"
    /\ out[c] = << >>

\* C5: in the poll server, while no more connections are established at
\* once than there are slots, every open client descriptor sits in a slot,
\* so the open client descriptors never outnumber the slots.
C5_NoLeak ==
  (strategy = "poll" /\ ~overCap) =>
    /\ OpenClientFds = SlotFds
    /\ Cardinality(OpenClientFds) <= MAX_CLIENTS
    /\ \A j, k \in 1 .. MAX_CLIENTS :
         (j # k /\ fds[j].fd # -1) => fds[j].fd # fds[k].fd

\* C5 witness: a slot released by a closed connection holds a later one.
C5_Witness ==
  /\ strategy = "poll"
  /\ ~overCap
  /\ \E k \in 1 .. MAX_CLIENTS, c, d \in Conns :
       /\ c < d
       /\ slotOf[c] = k
       /\ phase[c] = "closed"
       /\ HeldIn(k) = d
       /\ phase[d] = "open"

\* C6: no close ever names a descriptor that is not open, and a pass of the
\* client loop over an empty slot changes neither the table nor any
\* descriptor.
C6_ReleaseOnce ==
  /\ [](~badClose)
  /\ [][(strategy = "poll" /\ pc = "scan" /\ fds[idx].fd = -1)
          => (fds' = fds /\ fdtab' = fdtab)]_vars

\* C6 witness: the client loop stands at a slot that was released before.
C6_Witness ==
  /\ strategy = "poll"
  /\ pc = "scan"
  /\ fds[idx].fd = -1
  /\ \E c \in Conns : slotOf[c] = idx /\ phase[c] = "closed"

\* C7: outside the wait call the loop is never suspended, and when it
\* comes back to the wait call every connection the last wait reported has
\* been read.
C7_OnlyWaitSuspends ==
  /\ pc \in {"accept", "scan", "handle", "del"} => ENABLED LoopStep
  /\ pc = "wait" => pending = {}

\* C8: after a wait call has failed the loop has terminated.
C8_WaitErrorEndsLoop ==
  waitFailed => pc = "exit"

\* C9: whenever main returns, it returns 1.
C9_ExitCodeOne ==
  pc = "exit" => exitCode = 1

\* C10: a connection whose last read failed with "would block" is still
\* open and still registered with the notifier.
C10_WouldBlockKeepsOpen ==
  \A c \in Conns :
    lastRead[c] = "again" =>
      /\ phase[c] = "open"
      /\ FdOf(c) # {}
      /\ FdOf(c) \subseteq interest

\* C11: a step that closes a connection after a read returned end-of-file
\* or an error empties that connection's slot or registration and nothing
\* else: every other connection keeps its phase, descriptor, slot and
\* registration, the listening descriptor stays open and watched, and the
\* loop goes on.
C11_ErrorIsLocal ==
  [][\A c \in Conns :
       (phase[c] = "open" /\ phase'[c] = "closed"
          /\ lastRead'[c] \in {"eof", "err"}) =>
         /\ \A d \in Conns \ {c} : phase'[d] = phase[d]
         /\ \A f \in FdNums \ FdOf(c) :
              /\ fdtab'[f] = fdtab[f]
              /\ (f \in interest') = (f \in interest)
              /\ (f \in nonblock') = (f \in nonblock)
         /\ \A f \in FdOf(c) : fdtab'[f] = FREE /\ f \notin interest'
         /\ \A k \in Slots :
              IF fds[k].fd \in FdOf(c)
              THEN fds'[k].fd = -1
              ELSE fds'[k] = fds[k]
         /\ server_fd' = server_fd
         /\ epoll_fd' = epoll_fd
         /\ pc' \in {"scan", "wait", "del"}]_vars

\* C11 witness: a connection was closed on end-of-file or an error while a
\* connection accepted before it is still open and still watched.
C11_Witness ==
  \E c, d \in Conns :
    /\ d < c
    /\ phase[c] = "closed"
    /\ lastRead[c] \in {"eof", "err"}
    /\ phase[d] = "open"
    /\ ~Released(d)

\* C12: whenever the epoll server is about to deregister a client
\* descriptor from the epoll instance, that descriptor is still open and
\* still registered: deregistration comes before the close.
C12_DeregBeforeClose ==
  (strategy = "epoll" /\ pc = "del") =>
    /\ client_fd \in FdNums
    /\ fdtab[client_fd] # FREE
    /\ client_fd \in interest

\* descriptors the notifier watches: the non-negative entries of the pollfd
\* array, or the interest list of the epoll instance
Watched ==
  IF strategy = "poll"
  THEN { fds[k].fd : k \in Slots } \ {-1}
  ELSE interest

\* C13: at the top of the loop every watched descriptor is open and is
\* either the listening socket or the descriptor of one connection in phase
\* open; no closed descriptor is watched.
C13_WatchedAreLive ==
  pc = "wait" =>
    \A f \in Watched :
      /\ f \in FdNums
      /\ fdtab[f] # FREE
      /\ \/ f = server_fd /\ fdtab[f] = LISTENER
         \/ fdtab[f] \in Conns /\ phase[fdtab[f]] = "open"
                               /\ FdOf(fdtab[f]) = {f}

\* C13 witness: at the top of the loop, after a connection has been closed,
\* the listening socket and a client connection are watched.
C13_Witness ==
  /\ pc = "wait"
  /\ server_fd \in Watched
  /\ \E c, d \in Conns :
       /\ phase[c] = "closed"
       /\ phase[d] = "open"
       /\ FdOf(d) # {}
       /\ FdOf(d) \subseteq Watched

\* C14: in every state each client slot is empty (-1) or holds the
\* descriptor of one open connection, no descriptor number is in two slots,
\* at most MAX_CLIENTS client slots are occupied, and every descriptor
\* registered with the epoll instance is open, so a number the kernel hands
\* out again is never registered already.
C14_TableInvariant ==
  /\ \A k \in 1 .. MAX_CLIENTS :
       \/ fds[k].fd = -1
       \/ /\ fds[k].fd \in FdNums
          /\ fdtab[fds[k].fd] \in Conns
          /\ phase[fdtab[fds[k].fd]] = "open"
  /\ \A j, k \in 1 .. MAX_CLIENTS :
       (j # k /\ fds[j].fd # -1) => fds[j].fd # fds[k].fd
  /\ Cardinality({ k \in 1 .. MAX_CLIENTS : fds[k].fd # -1 }) <= MAX_CLIENTS
  /\ \A f \in interest \ {server_fd} :
       fdtab[f] \in Conns /\ phase[fdtab[f]] = "open"
  /\ \A f \in FdNums : fdtab[f] = FREE => f \notin interest

\* C14 witness: the lowest client descriptor number, first given to
\* connection 1 and closed, now belongs to a later connection and is watched.
C14_Witness ==
  \E f \in FdNums, d \in Conns \ {1} :
    /\ phase[1] = "closed"
    /\ fdtab[f] = d
    /\ \A g \in FdNums : g < f => fdtab[g] < 0
    /\ f \in Watched

\* C15: a step in which accept fails changes no slot, no registration, no
\* descriptor and no connection, leaves the connections the wait reported
\* still to be read, and moves the loop on to the next entry; and when the
\* loop is back at the wait call every reported connection has been read.
C15_AcceptFailureIgnored ==
  /\ [](pc = "wait" => pending = {})
  /\ [][(lastAccept = 0 /\ lastAccept' = -1) =>
          /\ fds' = fds
          /\ interest' = interest
          /\ rdy' = rdy
          /\ fdtab' = fdtab
          /\ nonblock' = nonblock
          /\ phase' = phase
          /\ backlog' = backlog
          /\ pending' = pending
          /\ exitCode' = exitCode
          /\ IF strategy = "poll"
             THEN pc' = "scan" /\ idx' = 1
             ELSE /\ idx' = idx + 1
                  /\ pc' = IF idx + 1 > Len(events) THEN "wait" ELSE "handle"]_vars

\* C15 witness: in the epoll server accept failed on the listening entry of
\* a batch and the client entry after it has been read.
C15_Witness ==
  /\ strategy = "epoll"
  /\ lastAccept = -1
  /\ pc = "del"
  /\ \E i \in 1 .. idx - 1 : events[i] = server_fd

\* C16: while the loop runs, the listening descriptor and every open client
\* descriptor, that is every descriptor the loop may call accept, read or
\* write on, is in non-blocking mode.
C16_AllNonBlocking ==
  pc \in {"wait", "accept", "scan", "handle", "del"} =>
    /\ server_fd \in nonblock
    /\ OpenClientFds \subseteq nonblock

\* C17: the epoll server enters its event loop only with the listening
\* socket in non-blocking mode (a failure to set the mode ends startup),
\* and a failure to set the mode on a client socket does not end the run.
C17_ListenerModeFatal ==
  /\ (strategy = "epoll" /\ pc \in {"wait", "handle", "del"}) =>
       server_fd \in nonblock
  /\ (strategy = "epoll" /\ OpenClientFds \ nonblock # {}) => exitCode = -1

\* descriptor f is an entry of the batch the last epoll_wait returned
Reported(f) ==
  pc = "handle" /\ \E i \in 1 .. Len(events) : events[i] = f

\* C18: in the epoll server a batch never has more than MAX_EVENTS entries;
\* a registered connection with something to read always has an event
\* queued in the epoll instance or is an unread entry of the current batch;
\* a queued event leaves the instance only by being returned or by its
\* descriptor being closed; the loop is back at epoll_wait only after every
\* returned connection has been read; and, the loop running fairly, every
\* queued event and every pending accept is eventually returned by an
\* epoll_wait.
C18_NoEventDropped ==
  /\ [](Len(events) <= MAX_EVENTS)
  /\ [](\A c \in Conns :
          (phase[c] = "open" /\ Readable(c) /\ FdOf(c) \subseteq interest) =>
            (FdOf(c) \subseteq rdy \/ c \in pending))
  /\ [](pc = "wait" => pending = {})
  /\ [][\A f \in rdy :
          \/ f \in rdy'
          \/ fdtab'[f] = FREE
          \/ pc = "wait" /\ pc' = "handle"
               /\ \E i \in 1 .. Len(events') : events'[i] = f]_vars
  /\ \A f \in FdNums : (f \in rdy) ~> Reported(f)
  /\ (pc = "wait" /\ backlog # << >>) ~> Reported(server_fd)

\* C19: in the epoll server every client entry of a batch that is still to
\* be handled names an open descriptor that belongs to a connection the
\* epoll_wait reported, and the step that handles a client entry reads and
\* closes exactly that descriptor while it is open and owned by that
\* connection, also when an accept of the same batch takes a descriptor
\* number closed earlier in the batch.
C19_EventOwnerHandled ==
  /\ []((strategy = "epoll" /\ pc = "handle") =>
          \A i \in idx .. Len(events) :
            events[i] # server_fd =>
              /\ events[i] \in FdNums
              /\ fdtab[events[i]] \in pending)
  /\ [][(strategy = "epoll" /\ pc = "handle" /\ pc' = "del") =>
          /\ client_fd' = events[idx]
          /\ client_fd' \in FdNums
          /\ fdtab[client_fd'] \in pending
          /\ phase[fdtab[client_fd']] = "open"
          /\ fdtab'[client_fd'] = FREE
          /\ phase'[fdtab[client_fd']] = "closed"
          /\ badClose' = badClose]_vars

\* C19 witness: a batch had a client entry before the listening entry; the
\* client descriptor was closed and the accept of the same batch gave its
\* number to a new connection.
C19_Witness ==
  /\ strategy = "epoll"
  /\ lastAccept > 0
  /\ \E i, j \in 1 .. Len(events) :
       /\ i < j
       /\ j < idx
       /\ events[j] = server_fd
       /\ fdtab[events[i]] = lastAccept

\* C20: in the poll server, during the client scan, every slot still to be
\* visited that holds a descriptor has revents written by the current poll
\* call, has POLLIN set only if poll reported its connection, and has POLLIN
\* clear if its connection was accepted in this iteration; and a scan step
\* that reads does so on a connection poll reported, never on the one
\* accepted in this iteration.
C20_ScanReadsReported ==
  /\ []((strategy = "poll" /\ pc = "scan") =>
          \A k \in idx .. MAX_CLIENTS :
            fds[k].fd # -1 =>
              /\ fds[k].revents # INDET
              /\ POLLIN \in fds[k].revents => fdtab[fds[k].fd] \in pending
              /\ fdtab[fds[k].fd] = lastAccept => POLLIN \notin fds[k].revents)
  /\ [][(strategy = "poll" /\ pc = "scan" /\ idx' # idx
           /\ (rcv' # rcv \/ lastRead' # lastRead)) =>
          /\ fds[idx].fd \in FdNums
          /\ fdtab[fds[idx].fd] \in pending
          /\ fdtab[fds[idx].fd] # lastAccept]_vars

\* C20 witness: the scan has not yet visited a slot that was emptied after a
\* read in an earlier iteration and now holds the connection accepted in
\* this iteration, which has something to read; POLLIN is clear in the slot.
C20_Witness ==
  /\ strategy = "poll"
  /\ pc = "scan"
  /\ lastAccept > 0
  /\ Readable(lastAccept)
  /\ \E k \in idx .. MAX_CLIENTS, c \in Conns :
       /\ HeldIn(k) = lastAccept
       /\ fds[k].fd \in FdOf(lastAccept)
       /\ c < lastAccept
       /\ slotOf[c] = k
       /\ phase[c] = "closed"
       /\ lastRead[c] # "none"
       /\ POLLIN \notin fds[k].revents

=============================================================================
